---- MODULE Spec2Model ----
(***************************************************************************)
(* Feature-flag resolution of auraxis-api (app/utils/feature_flags.py) and *)
(* the catalog hygiene script (scripts/check_feature_flags.py).            *)
(*                                                                         *)
(* Python strings are sequences of one-character strings, so that strip(), *)
(* lower(), rstrip("/") and startswith() are computed.  A Python / JSON    *)
(* scalar is a tagged record (absent, none, bool, num, str).  A JSON text  *)
(* is represented by what json.loads makes of it: "invalid" (it raises     *)
(* JSONDecodeError), a non-object value, or an object with its members.    *)
(* Time (time.monotonic, the TTL) is counted in whole seconds.             *)
(***************************************************************************)
EXTENDS Integers, Sequences, FiniteSets, TLC

VARIABLES
    env,                              \* os.environ: the provider settings
    world,                            \* override variable, catalog file and server answer, when held fixed
    now,                              \* time.monotonic()
    unleash_cache_snapshot,           \* _unleash_cache_snapshot
    unleash_cache_expire_at_seconds,  \* _unleash_cache_expire_at_seconds
    catalog_cache,                    \* lru_cache of _load_catalog
    overrides_cache,                  \* lru_cache of _load_overrides
    last,                             \* the last completed top-level call and its outcome
    pc,                               \* per request context: position in the code
    loc,                              \* per request context: local variables
    done,                             \* per request context: outcome of its last call
    hyg,                              \* the hygiene script: input catalog, today, outcome
    hist                              \* history: the stored fetch, what happened since the last reset

vars == <<env, world, now, unleash_cache_snapshot,
          unleash_cache_expire_at_seconds, catalog_cache, overrides_cache,
          last, pc, loc, done, hyg, hist>>

-----------------------------------------------------------------------------
(* Bounds of the model.                                                    *)

MaxTime == 2
MaxFlags == 2

-----------------------------------------------------------------------------
(* Strings.                                                                *)

S_empty == <<>>
S_blank == <<" ">>
S_0 == <<"0">>
S_1 == <<"1">>
S_2 == <<"2">>
S_x == <<"x">>
S_slash == <<"/">>
S_api == <<"a", "p", "i">>
S_dot == <<".">>
S_active == <<"a", "c", "t", "i", "v", "e">>
S_released == <<"r", "e", "l", "e", "a", "s", "e", "d">>
S_enabled == <<"e", "n", "a", "b", "l", "e", "d">>
S_draft == <<"d", "r", "a", "f", "t">>
S_enabled_dev == <<"e", "n", "a", "b", "l", "e", "d", "-", "d", "e", "v">>
S_enabled_staging == <<"e", "n", "a", "b", "l", "e", "d", "-", "s", "t", "a", "g", "i", "n", "g">>
S_enabled_prod == <<"e", "n", "a", "b", "l", "e", "d", "-", "p", "r", "o", "d">>
S_cleanup_pending == <<"c", "l", "e", "a", "n", "u", "p", "-", "p", "e", "n", "d", "i", "n", "g">>
S_removed == <<"r", "e", "m", "o", "v", "e", "d">>
S_release == <<"r", "e", "l", "e", "a", "s", "e">>
S_experiment == <<"e", "x", "p", "e", "r", "i", "m", "e", "n", "t">>
S_kill_switch == <<"k", "i", "l", "l", "-", "s", "w", "i", "t", "c", "h">>
S_local == <<"l", "o", "c", "a", "l">>
S_unleash == <<"u", "n", "l", "e", "a", "s", "h">>
S_true == <<"t", "r", "u", "e">>
S_yes == <<"y", "e", "s">>
S_on == <<"o", "n">>
S_false == <<"f", "a", "l", "s", "e">>
S_no == <<"n", "o">>
S_off == <<"o", "f", "f">>
S_True == <<"T", "r", "u", "e">>
S_False == <<"F", "a", "l", "s", "e">>
S_None == <<"N", "o", "n", "e">>
S_30_0 == <<"3", "0", ".", "0">>
S_Unleash_padded == <<" ", "U", "n", "l", "e", "a", "s", "h", " ">>
S_Enabled_padded == <<" ", "E", "n", "a", "b", "l", "e", "d", " ">>
S_Draft == <<"D", "r", "a", "f", "t">>
S_ON_padded == <<" ", "O", "N", " ">>
S_maybe == <<"m", "a", "y", "b", "e">>
S_team == <<"t", "e", "a", "m">>
S_url == <<"h", ":", "/", "/", "u", "/">>
S_proxy == <<"h", ":", "/", "/", "p">>
D_2024_01_10 == <<"2", "0", "2", "4", "-", "0", "1", "-", "1", "0">>
D_2024_02_01 == <<"2", "0", "2", "4", "-", "0", "2", "-", "0", "1">>
D_2024_06_01 == <<"2", "0", "2", "4", "-", "0", "6", "-", "0", "1">>
D_2024_02_30 == <<"2", "0", "2", "4", "-", "0", "2", "-", "3", "0">>
D_2024_02_29 == <<"2", "0", "2", "4", "-", "0", "2", "-", "2", "9">>
D_2023_02_29 == <<"2", "0", "2", "3", "-", "0", "2", "-", "2", "9">>
S_soon == <<"s", "o", "o", "n">>
K_a == <<"a", "p", "i", ".", "a">>
K_b == <<"a", "p", "i", ".", "b">>
K_a_padded == <<" ", "a", "p", "i", ".", "a", " ">>
K_web == <<"w", "e", "b", ".", "a">>

Whitespace == {" ", "\t", "\n", "\r"}
UpperChars == <<"A", "B", "C", "D", "E", "F", "G", "H", "I", "J", "K", "L", "M",
                "N", "O", "P", "Q", "R", "S", "T", "U", "V", "W", "X", "Y", "Z">>
LowerChars == <<"a", "b", "c", "d", "e", "f", "g", "h", "i", "j", "k", "l", "m",
                "n", "o", "p", "q", "r", "s", "t", "u", "v", "w", "x", "y", "z">>
DigitChars == <<"0", "1", "2", "3", "4", "5", "6", "7", "8", "9">>

\* the lower-case letter of each upper-case letter
LowerOf ==
    [c \in {UpperChars[i] : i \in 1..Len(UpperChars)} |->
        LowerChars[CHOOSE i \in 1..Len(UpperChars) : UpperChars[i] = c]]

\* str.lower() on one character
LowerChar(c) == IF c \in DOMAIN LowerOf THEN LowerOf[c] ELSE c

\* str.lower()
Lower(s) == [i \in 1..Len(s) |-> LowerChar(s[i])]

RECURSIVE LStrip(_)
LStrip(s) ==
    IF s = <<>> THEN s
    ELSE IF Head(s) \in Whitespace THEN LStrip(Tail(s)) ELSE s

RECURSIVE RStripSet(_, _)
\* str.rstrip(chars)
RStripSet(s, chars) ==
    IF s = <<>> THEN s
    ELSE IF s[Len(s)] \in chars THEN RStripSet(SubSeq(s, 1, Len(s) - 1), chars) ELSE s

\* str.strip()
Strip(s) == RStripSet(LStrip(s), Whitespace)

\* str.startswith(p)
StartsWith(s, p) == Len(s) >= Len(p) /\ SubSeq(s, 1, Len(p)) = p

\* the value of each decimal digit
ValueOf ==
    [c \in {DigitChars[i] : i \in 1..Len(DigitChars)} |->
        (CHOOSE i \in 1..Len(DigitChars) : DigitChars[i] = c) - 1]

IsDigit(c) == c \in DOMAIN ValueOf
DigitVal(c) == ValueOf[c]

RECURSIVE DigitsVal(_)
DigitsVal(s) ==
    IF s = <<>> THEN 0 ELSE 10 * DigitsVal(SubSeq(s, 1, Len(s) - 1)) + DigitVal(s[Len(s)])

\* float(s) on the decimal strings [-]digits[.0...]; every other string is
\* ValueError (strings with a non-zero fraction are not among the inputs).
ParseFloat(s) ==
    LET neg == s # <<>> /\ Head(s) = "-"
        body == IF neg THEN Tail(s) ELSE s
        dots == {i \in 1..Len(body) : body[i] = "."}
        ip == IF dots = {} THEN body ELSE SubSeq(body, 1, (CHOOSE i \in dots : TRUE) - 1)
        fp == IF dots = {} THEN <<>> ELSE SubSeq(body, (CHOOSE i \in dots : TRUE) + 1, Len(body))
        wellformed == /\ Cardinality(dots) <= 1
                      /\ ip # <<>>
                      /\ \A i \in 1..Len(ip) : IsDigit(ip[i])
                      /\ \A i \in 1..Len(fp) : fp[i] = "0"
    IN  IF wellformed
        THEN [ok |-> TRUE, n |-> IF neg THEN 0 - DigitsVal(ip) ELSE DigitsVal(ip)]
        ELSE [ok |-> FALSE, n |-> 0]

-----------------------------------------------------------------------------
(* Python / JSON scalars.                                                  *)

AbsentV == [t |-> "absent", b |-> FALSE, n |-> 0, s |-> <<>>]   \* no such key / variable
NoneV == [t |-> "none", b |-> FALSE, n |-> 0, s |-> <<>>]
BoolV(x) == [t |-> "bool", b |-> x, n |-> 0, s |-> <<>>]
NumV(x) == [t |-> "num", b |-> FALSE, n |-> x, s |-> <<>>]
StrV(x) == [t |-> "str", b |-> FALSE, n |-> 0, s |-> x]

\* dict.get(key, default)
GetOr(v, default) == IF v.t = "absent" THEN default ELSE v

\* str(value), for single-digit numbers
PyStr(v) ==
    CASE v.t = "str" -> v.s
      [] v.t = "bool" -> IF v.b THEN S_True ELSE S_False
      [] v.t = "num" -> <<DigitChars[v.n + 1]>>
      [] OTHER -> S_None

\* truthiness of a scalar
Truthy(v) ==
    CASE v.t = "str" -> v.s # <<>>
      [] v.t = "bool" -> v.b
      [] v.t = "num" -> v.n # 0
      [] OTHER -> FALSE

\* dictionaries keyed by strings
EmptyDict == <<>>
Put(d, k, v) == [x \in (DOMAIN d) \cup {k} |-> IF x = k THEN v ELSE d[x]]

\* outcome of a call: a returned value or a raised exception
Ret(v) == [exc |-> "none", val |-> v]
Raise(e) == [exc |-> e, val |-> FALSE]

-----------------------------------------------------------------------------
(* app/utils/feature_flags.py: constants and pure helpers.                 *)

\* the enabled statuses with a validator status among them
_ENABLED_STATUSES_with_prod == {S_active, S_released, S_enabled, S_enabled_prod}

_ENABLED_STATUSES == {S_active, S_released, S_enabled}
_UNLEASH_DEFAULT_CACHE_TTL_SECONDS == 30

RECURSIVE _read_env_value(_, _, _)
\* keys is a sequence of variable names, tried in order
_read_env_value(e, keys, default_value) ==
    IF keys = <<>> THEN default_value
    ELSE LET raw_value == e[Head(keys)]
         IN  IF raw_value.t = "str" /\ Strip(raw_value.s) # <<>>
             THEN Strip(raw_value.s)
             ELSE _read_env_value(e, Tail(keys), default_value)

_normalize_status(value) ==
    Lower(Strip(IF Truthy(value) THEN PyStr(value) ELSE S_empty))

\* _as_bool_or_none without "off" among the false words
_as_bool_or_none_without_off(value) ==
    IF value.t = "bool" THEN value
    ELSE IF value.t \in {"none", "absent"} THEN NoneV
    ELSE LET normalized == Lower(Strip(PyStr(value)))
         IN  IF normalized \in {S_1, S_true, S_yes, S_on} THEN BoolV(TRUE)
             ELSE IF normalized \in {S_0, S_false, S_no} THEN BoolV(FALSE)
             ELSE NoneV

_as_bool_or_none(value) ==
    IF value.t = "bool" THEN value
    ELSE IF value.t \in {"none", "absent"} THEN NoneV
    ELSE LET normalized == Lower(Strip(PyStr(value)))
         IN  IF normalized \in {S_1, S_true, S_yes, S_on} THEN BoolV(TRUE)
             ELSE IF normalized \in {S_0, S_false, S_no, S_off} THEN BoolV(FALSE)
             ELSE NoneV

_get_provider_mode(e) == Lower(_read_env_value(e, <<"AURAXIS_FLAG_PROVIDER">>, S_local))

_get_unleash_url(e) ==
    RStripSet(_read_env_value(e, <<"AURAXIS_UNLEASH_URL", "AURAXIS_UNLEASH_PROXY_URL">>, S_empty),
              {"/"})

_get_unleash_cache_ttl_seconds(e) ==
    LET v == e["AURAXIS_UNLEASH_CACHE_TTL_SECONDS"]
        raw_ttl == Strip(IF v.t = "str" THEN v.s ELSE S_30_0)
        parsed == ParseFloat(raw_ttl)
    IN  IF ~parsed.ok THEN _UNLEASH_DEFAULT_CACHE_TTL_SECONDS
        ELSE IF parsed.n <= 0 THEN _UNLEASH_DEFAULT_CACHE_TTL_SECONDS
        ELSE parsed.n

-----------------------------------------------------------------------------
(* JSON documents, as json.loads sees them.                                *)

J_invalid == [j |-> "invalid", members |-> AbsentV, items |-> <<>>]   \* not JSON at all
J_scalar == [j |-> "scalar", members |-> AbsentV, items |-> <<>>]     \* JSON, but a list/string/number
\* an object whose member "flags" / "features" is missing
J_object_without_list == [j |-> "object", members |-> AbsentV, items |-> <<>>]
\* an object whose member "flags" / "features" is not a list
J_object_bad_list == [j |-> "object", members |-> NumV(1), items |-> <<>>]
\* an object whose member "flags" / "features" is the list xs
J_object(xs) == [j |-> "object", members |-> StrV(<<"l", "i", "s", "t">>), items |-> xs]
\* the object {k1: v1, ...} of the override variable, as a sequence of pairs
J_dict(pairs) == [j |-> "dict", members |-> AbsentV, items |-> pairs]

IsListMember(doc) == doc.members.t = "str"

\* an item of "features": {"name": ..., "enabled": ...} or something that is not an object
Feature(name, enabled) == [isdict |-> TRUE, name |-> name, enabled |-> enabled]
NotAnObjectFeature == [isdict |-> FALSE, name |-> AbsentV, enabled |-> AbsentV]

\* an item of "flags"
Flag(key, status, owner, type, createdAt, removeBy) ==
    [isdict |-> TRUE, key |-> key, status |-> status, owner |-> owner, type |-> type,
     createdAt |-> createdAt, removeBy |-> removeBy]
NotAnObjectFlag ==
    [isdict |-> FALSE, key |-> AbsentV, status |-> AbsentV, owner |-> AbsentV, type |-> AbsentV,
     createdAt |-> AbsentV, removeBy |-> AbsentV]

\* the catalog file: absent from disk, or a text
NoFile == [exists |-> FALSE, doc |-> J_invalid]
File(doc) == [exists |-> TRUE, doc |-> doc]

\* the value of AURAXIS_FEATURE_FLAGS: unset, or a text
Text(doc) == [t |-> "str", blank |-> FALSE, doc |-> doc]
BlankText == [t |-> "str", blank |-> TRUE, doc |-> J_invalid]
NoText == [t |-> "absent", blank |-> TRUE, doc |-> J_invalid]

\* what request.urlopen does: raise, or hand back a response
Raises(e) == [outcome |-> e, status |-> 0, utf8 |-> FALSE, doc |-> J_invalid]
Response(status, utf8, doc) == [outcome |-> "response", status |-> status, utf8 |-> utf8, doc |-> doc]

-----------------------------------------------------------------------------
(* app/utils/feature_flags.py: the three sources.                          *)

RECURSIVE ParseFeatures(_, _)
\* the loop of _parse_unleash_payload
ParseFeatures(features, parsed_flags) ==
    IF features = <<>> THEN parsed_flags
    ELSE LET feature == Head(features)
             flag_name == Strip(PyStr(GetOr(feature.name, StrV(S_empty))))
             flag_enabled == feature.enabled
         IN  IF ~feature.isdict THEN ParseFeatures(Tail(features), parsed_flags)
             ELSE IF flag_name # <<>> /\ flag_enabled.t = "bool"
                  THEN ParseFeatures(Tail(features), Put(parsed_flags, flag_name, flag_enabled.b))
                  ELSE ParseFeatures(Tail(features), parsed_flags)

_parse_unleash_payload(payload) ==
    IF payload.j # "object" THEN EmptyDict
    ELSE IF payload.members.t = "absent" THEN EmptyDict
    ELSE IF ~IsListMember(payload) THEN EmptyDict
    ELSE ParseFeatures(payload.items, EmptyDict)

\* the exception classes of the except clause of _fetch_unleash_snapshot
CaughtByFetch == {"URLError", "TimeoutError", "UnicodeDecodeError", "JSONDecodeError"}

\* the try block of _fetch_unleash_snapshot: "exc" is the exception raised in it
\* ("none" if none), "early" tells the return {} on a status other than 200
UrlopenAndDecode(srv) ==
    IF srv.outcome # "response" THEN [exc |-> srv.outcome, early |-> FALSE, payload |-> J_invalid]
    ELSE IF srv.status # 200 THEN [exc |-> "none", early |-> TRUE, payload |-> J_invalid]
    ELSE IF ~srv.utf8 THEN [exc |-> "UnicodeDecodeError", early |-> FALSE, payload |-> J_invalid]
    ELSE IF srv.doc.j = "invalid" THEN [exc |-> "JSONDecodeError", early |-> FALSE, payload |-> J_invalid]
    ELSE [exc |-> "none", early |-> FALSE, payload |-> srv.doc]

ProviderActive(e) == _get_provider_mode(e) = S_unleash /\ _get_unleash_url(e) # <<>>

\* _fetch_unleash_snapshot that answers a failed request from the stored snapshot
_fetch_unleash_snapshot_stale(e, srv, t, snap, exp) ==
    LET idle == [ret |-> EmptyDict, snap |-> snap, exp |-> exp, net |-> FALSE, fetch |-> "no_request"]
        r == UrlopenAndDecode(srv)
        parsed_flags == _parse_unleash_payload(r.payload)
    IN  IF _get_provider_mode(e) # S_unleash THEN idle
        ELSE IF _get_unleash_url(e) = <<>> THEN idle
        ELSE IF t < exp THEN [idle EXCEPT !.ret = snap]
        ELSE IF r.early THEN [idle EXCEPT !.ret = snap, !.net = TRUE, !.fetch = "status"]
        ELSE IF r.exc \in CaughtByFetch
        THEN [idle EXCEPT !.ret = snap, !.net = TRUE, !.fetch = r.exc]
        ELSE [ret |-> parsed_flags, snap |-> parsed_flags,
              exp |-> t + _get_unleash_cache_ttl_seconds(e), net |-> TRUE, fetch |-> "ok"]

\* _fetch_unleash_snapshot without the test of the expiry
_fetch_unleash_snapshot_ignores_expiry(e, srv, t, snap, exp) ==
    LET idle == [ret |-> EmptyDict, snap |-> snap, exp |-> exp, net |-> FALSE, fetch |-> "no_request"]
        r == UrlopenAndDecode(srv)
        parsed_flags == _parse_unleash_payload(r.payload)
    IN  IF _get_provider_mode(e) # S_unleash THEN idle
        ELSE IF _get_unleash_url(e) = <<>> THEN idle
        ELSE IF r.early THEN [idle EXCEPT !.net = TRUE, !.fetch = "status"]
        ELSE IF r.exc \in CaughtByFetch THEN [idle EXCEPT !.net = TRUE, !.fetch = r.exc]
        ELSE [ret |-> parsed_flags, snap |-> parsed_flags,
              exp |-> t + _get_unleash_cache_ttl_seconds(e), net |-> TRUE, fetch |-> "ok"]

\* _fetch_unleash_snapshot run to completion at time t with the cache (snap, exp):
\* ret is the returned snapshot, snap/exp the cache afterwards, net tells whether
\* a request was sent, fetch how the request ended
_fetch_unleash_snapshot(e, srv, t, snap, exp) ==
    LET idle == [ret |-> EmptyDict, snap |-> snap, exp |-> exp, net |-> FALSE, fetch |-> "no_request"]
        r == UrlopenAndDecode(srv)
        parsed_flags == _parse_unleash_payload(r.payload)
    IN  IF _get_provider_mode(e) # S_unleash THEN idle
        ELSE IF _get_unleash_url(e) = <<>> THEN idle
        ELSE IF t < exp THEN [idle EXCEPT !.ret = snap]
        ELSE IF r.early THEN [idle EXCEPT !.net = TRUE, !.fetch = "status"]
        ELSE IF r.exc \in CaughtByFetch THEN [idle EXCEPT !.net = TRUE, !.fetch = r.exc]
        ELSE [ret |-> parsed_flags, snap |-> parsed_flags,
              exp |-> t + _get_unleash_cache_ttl_seconds(e), net |-> TRUE, fetch |-> "ok"]

\* resolve_provider_decision that never finds a decision
resolve_provider_decision_ignored(snapshot, flag_key) == NoneV

\* snapshot.get(flag_key), then the isinstance test of resolve_provider_decision
resolve_provider_decision(snapshot, flag_key) ==
    IF flag_key \in DOMAIN snapshot THEN BoolV(snapshot[flag_key]) ELSE NoneV

RECURSIVE IndexFlags(_, _)
\* the loop of _load_catalog
IndexFlags(flags, by_key) ==
    IF flags = <<>> THEN by_key
    ELSE LET flag == Head(flags)
             key == Strip(PyStr(GetOr(flag.key, StrV(S_empty))))
         IN  IF ~flag.isdict THEN IndexFlags(Tail(flags), by_key)
             ELSE IF key = <<>> THEN IndexFlags(Tail(flags), by_key)
             ELSE IndexFlags(Tail(flags), Put(by_key, key, flag))

\* the body of _load_catalog
_load_catalog(file) ==
    IF ~file.exists THEN Ret(EmptyDict)
    ELSE IF file.doc.j = "invalid" THEN Raise("JSONDecodeError")
    ELSE IF file.doc.j # "object" THEN Raise("AttributeError")
    ELSE IF file.doc.members.t = "absent" THEN Ret(EmptyDict)
    ELSE IF ~IsListMember(file.doc) THEN Ret(EmptyDict)
    ELSE Ret(IndexFlags(file.doc.items, EmptyDict))

RECURSIVE CollectOverrides(_, _)
\* the loop of _load_overrides
CollectOverrides(pairs, overrides) ==
    IF pairs = <<>> THEN overrides
    ELSE LET key == Head(pairs)[1]
             bool_value == _as_bool_or_none(Head(pairs)[2])
         IN  IF bool_value.t = "none" THEN CollectOverrides(Tail(pairs), overrides)
             ELSE CollectOverrides(Tail(pairs), Put(overrides, key, bool_value.b))

\* the body of _load_overrides; raw is the value of AURAXIS_FEATURE_FLAGS
_load_overrides(raw) ==
    IF raw.t = "absent" \/ raw.blank THEN EmptyDict
    ELSE IF raw.doc.j = "invalid" THEN EmptyDict
    ELSE IF raw.doc.j # "dict" THEN EmptyDict
    ELSE CollectOverrides(raw.doc.items, EmptyDict)

\* functools.lru_cache(maxsize=1) around a function without arguments
EmptyCache == [full |-> FALSE, value |-> EmptyDict]
Cached(v) == [full |-> TRUE, value |-> v]

\* the override lines written as a test of overrides.get(flag_key)
OverrideDecision_truthy(overrides, flag_key) ==
    IF flag_key \in DOMAIN overrides /\ overrides[flag_key] THEN BoolV(TRUE) ELSE NoneV

\* the override lines of is_feature_enabled: flag_key in overrides, overrides[flag_key]
OverrideDecision(overrides, flag_key) ==
    IF flag_key \in DOMAIN overrides THEN BoolV(overrides[flag_key]) ELSE NoneV

\* the last four lines of is_feature_enabled
CatalogDecision(catalog, flag_key) ==
    LET status == IF flag_key \in DOMAIN catalog
                  THEN _normalize_status(GetOr(catalog[flag_key].status, NoneV))
                  ELSE _normalize_status(NoneV)
    IN  status \in _ENABLED_STATUSES

\* is_feature_enabled run to completion at time t, in the environment e with the
\* override variable holding text, the catalog file being file and the server
\* answering srv: the outcome, the layer that decided, what was read (net: a
\* request was sent, ov_read: the variable, cat_read: the file) and the caches
\* afterwards
is_feature_enabled(e, text, file, srv, t, snap, exp, ovc, catc, flag_key, provider_value) ==
    LET provider_bool == _as_bool_or_none(provider_value)
        f == _fetch_unleash_snapshot(e, srv, t, snap, exp)
        provider_decision == resolve_provider_decision(f.ret, flag_key)
        overrides == IF ovc.full THEN ovc.value ELSE _load_overrides(text)
        loaded == _load_catalog(file)
        untouched == [result |-> Ret(FALSE), layer |-> "explicit", net |-> FALSE,
                      fetch |-> "no_request", got |-> EmptyDict, ov_read |-> FALSE,
                      cat_read |-> FALSE, snap |-> snap, exp |-> exp, ovc |-> ovc, catc |-> catc]
        fetched == [untouched EXCEPT !.net = f.net, !.fetch = f.fetch, !.got = f.ret,
                                     !.snap = f.snap, !.exp = f.exp]
        looked == [fetched EXCEPT !.ov_read = ~ovc.full, !.ovc = Cached(overrides)]
    IN  IF provider_bool.t # "none"
        THEN [untouched EXCEPT !.result = Ret(provider_bool.b)]
        ELSE IF provider_decision.t # "none"
        THEN [fetched EXCEPT !.result = Ret(provider_decision.b), !.layer = "provider"]
        ELSE IF OverrideDecision(overrides, flag_key).t # "none"
        THEN [looked EXCEPT !.result = Ret(OverrideDecision(overrides, flag_key).b),
                            !.layer = "override"]
        ELSE IF catc.full
        THEN [looked EXCEPT !.result = Ret(CatalogDecision(catc.value, flag_key)),
                            !.layer = "catalog"]
        ELSE IF loaded.exc # "none"
        THEN [looked EXCEPT !.result = loaded, !.layer = "catalog", !.cat_read = TRUE]
        ELSE [looked EXCEPT !.result = Ret(CatalogDecision(loaded.val, flag_key)),
                            !.layer = "catalog", !.cat_read = TRUE,
                            !.catc = Cached(loaded.val)]

-----------------------------------------------------------------------------
(* The inputs: settings, override texts, catalog files, server answers.    *)

EnvNames == {"AURAXIS_FLAG_PROVIDER", "AURAXIS_UNLEASH_URL", "AURAXIS_UNLEASH_PROXY_URL",
             "AURAXIS_UNLEASH_CACHE_TTL_SECONDS"}

MkEnv(provider, url, proxy, ttl) ==
    [n \in EnvNames |->
        CASE n = "AURAXIS_FLAG_PROVIDER" -> provider
          [] n = "AURAXIS_UNLEASH_URL" -> url
          [] n = "AURAXIS_UNLEASH_PROXY_URL" -> proxy
          [] OTHER -> ttl]

\* nothing set: the provider mode defaults to local
EnvLocal == MkEnv(AbsentV, AbsentV, AbsentV, AbsentV)
\* unleash, a URL with a trailing slash, a TTL of 2 seconds
EnvUnleash == MkEnv(StrV(S_Unleash_padded), StrV(S_url), AbsentV, StrV(S_2))
\* unleash, but the URL is "/", which is empty once the slashes are stripped
EnvSlashUrl == MkEnv(StrV(S_unleash), StrV(S_slash), StrV(S_proxy), AbsentV)
\* unleash through the proxy variable, with a TTL that is not a number
EnvProxy == MkEnv(StrV(S_unleash), StrV(S_blank), StrV(S_proxy), StrV(S_x))

Settings == {EnvLocal, EnvUnleash, EnvSlashUrl, EnvProxy}

TextTrue == Text(J_dict(<< <<K_a, BoolV(TRUE)>>, <<K_a_padded, BoolV(FALSE)>>,
                           <<K_web, StrV(S_maybe)>> >>))
TextOff == Text(J_dict(<< <<K_a, StrV(S_off)>>, <<K_b, NumV(1)>> >>))

OverrideTexts == {NoText, Text(J_invalid), Text(J_scalar), TextTrue, TextOff}

\* a catalog entry with the given key and status and otherwise valid metadata
Entry(key, status) ==
    Flag(key, status, StrV(S_team), StrV(S_release), StrV(D_2024_01_10), StrV(D_2024_06_01))

FileActive == File(J_object(<< Entry(StrV(K_a), StrV(S_active)), NotAnObjectFlag,
                               Entry(AbsentV, StrV(S_enabled)) >>))
FilePadded == File(J_object(<< Entry(StrV(K_a_padded), StrV(S_Enabled_padded)),
                               Entry(StrV(K_b), StrV(S_enabled_prod)) >>))
FileClean == File(J_object(<< Entry(StrV(K_a), StrV(S_draft)),
                              Entry(StrV(K_b), StrV(S_removed)) >>))

CatalogFiles ==
    { NoFile, File(J_invalid), File(J_scalar), File(J_object_bad_list),
      FileActive, FilePadded, FileClean }

AnswerA == Response(200, TRUE, J_object(<< Feature(StrV(K_a), BoolV(TRUE)),
                                           Feature(StrV(K_b), StrV(S_true)),
                                           NotAnObjectFeature >>))
AnswerB == Response(200, TRUE, J_object(<< Feature(StrV(K_a_padded), BoolV(FALSE)),
                                           Feature(StrV(K_b), BoolV(TRUE)),
                                           Feature(AbsentV, BoolV(TRUE)) >>))

ServerAnswers ==
    { Raises("URLError"), Raises("TimeoutError"),
      Response(204, TRUE, J_object(<<>>)), Response(200, FALSE, J_object(<<>>)),
      Response(200, TRUE, J_invalid), Response(200, TRUE, J_scalar), AnswerA, AnswerB }

FlagKeys == {K_a, K_b}

\* values of the second argument of is_feature_enabled
ExplicitValues == {NoneV}

\* what stands for a source that the call does not read
NoAnswer == Raises("not_asked")
NoWorld == [text |-> NoText, file |-> NoFile, answer |-> NoAnswer]

-----------------------------------------------------------------------------
(* The module used from one request context at a time.  The override       *)
(* variable, the catalog file and the server may change between any two     *)
(* operations, so each read takes what it finds: the value read is an input *)
(* of the operation that reads it.                                          *)
(*                                                                         *)
(* last describes the last operation: its arguments, its outcome, what it   *)
(* read, the history before it and, for a call whose request failed, the    *)
(* outcome the same call has when the provider mode is unset (if_inactive). *)
(*  hist remembers the successful fetch    *)
(* whose result is stored (when, with which TTL, what), the expiry that the *)
(* last reset wiped, and whether the overrides and the catalog have not     *)
(* been looked at since that reset.                                         *)

NoHistory ==
    [fetch |-> "never", at |-> 0, ttl |-> 0, snap |-> EmptyDict, old_exp |-> 0,
     ov_fresh |-> FALSE, cat_fresh |-> FALSE]

NoOp(op) ==
    [op |-> op, key |-> <<>>, explicit |-> NoneV, result |-> Ret(FALSE), decision |-> NoneV,
     layer |-> "none", net |-> FALSE, fetch |-> "no_request", got |-> EmptyDict,
     ov_read |-> FALSE, cat_read |-> FALSE, if_inactive |-> Ret(FALSE), pre |-> NoHistory]

\* the history after a run of _fetch_unleash_snapshot that ended as fetch with
\* the snapshot snap at time t, the configured TTL being d
AfterFetch(h, fetch, snap, t, d) ==
    IF fetch = "ok"
    THEN [h EXCEPT !.fetch = "stored", !.at = t, !.ttl = d, !.snap = snap, !.old_exp = 0]
    ELSE h

Idle == /\ pc = <<>>
        /\ loc = <<>>
        /\ done = <<>>
        /\ hyg = <<>>

Init ==
    /\ env \in Settings
    /\ world = NoWorld
    /\ now = 0
    /\ unleash_cache_snapshot = EmptyDict
    /\ unleash_cache_expire_at_seconds = 0
    /\ catalog_cache = EmptyCache
    /\ overrides_cache = EmptyCache
    /\ last = NoOp("start")
    /\ hist = NoHistory
    /\ Idle

\* is_feature_enabled(flag_key, provider_value) in the environment e
RunCall(e, flag_key, provider_value, text, file, answer) ==
    is_feature_enabled(e, text, file, answer, now, unleash_cache_snapshot,
                       unleash_cache_expire_at_seconds, overrides_cache, catalog_cache,
                       flag_key, provider_value)

\* the inputs a call reads: the answer if it sends a request, the text if it
\* loads the overrides, the file if it loads the catalog
AnswersRead(k, x, answers) ==
    IF RunCall(env, k, x, NoText, NoFile, NoAnswer).net THEN answers ELSE {NoAnswer}
TextsRead(k, x, answer, texts) ==
    IF RunCall(env, k, x, NoText, NoFile, answer).ov_read THEN texts ELSE {NoText}
FilesRead(k, x, answer, text, files) ==
    IF RunCall(env, k, x, text, NoFile, answer).cat_read THEN files ELSE {NoFile}

\* the environment with the provider mode left unset
ProviderOff(e) == [e EXCEPT !["AURAXIS_FLAG_PROVIDER"] = AbsentV]

\* is_feature_enabled(flag_key, provider_value)
IsFeatureEnabled(flag_key, provider_value, text, file, answer) ==
    \E r \in {RunCall(env, flag_key, provider_value, text, file, answer)} :
        /\ unleash_cache_snapshot' = r.snap
        /\ unleash_cache_expire_at_seconds' = r.exp
        /\ overrides_cache' = r.ovc
        /\ catalog_cache' = r.catc
        /\ last' = [NoOp("is_feature_enabled") EXCEPT
                      !.key = flag_key, !.explicit = provider_value, !.result = r.result,
                      !.layer = r.layer, !.net = r.net, !.fetch = r.fetch, !.got = r.got,
                      !.ov_read = r.ov_read, !.cat_read = r.cat_read,
                      !.if_inactive = IF r.net /\ r.fetch # "ok"
                                       THEN RunCall(ProviderOff(env), flag_key,
                                                    provider_value, text, file, answer).result
                                       ELSE r.result,
                      !.pre = hist]
        /\ hist' = [AfterFetch(hist, r.fetch, r.snap, now, _get_unleash_cache_ttl_seconds(env))
                      EXCEPT !.ov_fresh = @ /\ r.layer \in {"explicit", "provider"},
                             !.cat_fresh = @ /\ ~(r.layer = "catalog")]
        /\ UNCHANGED <<env, world, now, pc, loc, done, hyg>>

\* resolve_provider_decision(flag_key), called directly
ResolveProviderDecision(flag_key, answer) ==
    \E f \in {_fetch_unleash_snapshot(env, answer, now, unleash_cache_snapshot,
                                      unleash_cache_expire_at_seconds)} :
        /\ f.net \/ answer = NoAnswer
        /\ unleash_cache_snapshot' = f.snap
        /\ unleash_cache_expire_at_seconds' = f.exp
        /\ last' = [NoOp("resolve_provider_decision") EXCEPT
                      !.key = flag_key, !.decision = resolve_provider_decision(f.ret, flag_key),
                      !.layer = "provider", !.net = f.net, !.fetch = f.fetch, !.got = f.ret,
                      !.pre = hist]
        /\ hist' = AfterFetch(hist, f.fetch, f.snap, now, _get_unleash_cache_ttl_seconds(env))
        /\ UNCHANGED <<env, world, now, catalog_cache, overrides_cache, pc, loc, done, hyg>>

\* refresh_feature_flag_state() without the reset of the expiry
RefreshFeatureFlagState_keeps_expiry ==
    /\ catalog_cache' = EmptyCache
    /\ overrides_cache' = EmptyCache
    /\ unleash_cache_snapshot' = EmptyDict
    /\ unleash_cache_expire_at_seconds' = unleash_cache_expire_at_seconds
    /\ last' = [NoOp("refresh_feature_flag_state") EXCEPT !.pre = hist]
    /\ hist' = [NoHistory EXCEPT !.fetch = "reset", !.old_exp = unleash_cache_expire_at_seconds,
                                 !.ov_fresh = TRUE, !.cat_fresh = TRUE]
    /\ UNCHANGED <<env, world, now, pc, loc, done, hyg>>

\* refresh_feature_flag_state()
RefreshFeatureFlagState ==
    /\ catalog_cache' = EmptyCache
    /\ overrides_cache' = EmptyCache
    /\ unleash_cache_snapshot' = EmptyDict
    /\ unleash_cache_expire_at_seconds' = 0
    /\ last' = [NoOp("refresh_feature_flag_state") EXCEPT !.pre = hist]
    /\ hist' = [NoHistory EXCEPT !.fetch = "reset", !.old_exp = unleash_cache_expire_at_seconds,
                                 !.ov_fresh = TRUE, !.cat_fresh = TRUE]
    /\ UNCHANGED <<env, world, now, pc, loc, done, hyg>>

\* time.monotonic() advances
Tick ==
    /\ now < MaxTime
    /\ now' = now + 1
    /\ last' = NoOp("tick")
    /\ UNCHANGED <<env, world, unleash_cache_snapshot, unleash_cache_expire_at_seconds,
                   catalog_cache, overrides_cache, pc, loc, done, hyg, hist>>

\* the calls of is_feature_enabled with arguments and surroundings from the given sets
Calls(explicits, answers, texts, files) ==
    \E k \in FlagKeys, x \in explicits :
      \E answer \in AnswersRead(k, x, answers) :
        \E text \in TextsRead(k, x, answer, texts) :
          \E file \in FilesRead(k, x, answer, text, files) :
            IsFeatureEnabled(k, x, text, file, answer)

Resolutions(answers) ==
    \E k \in FlagKeys, answer \in answers \cup {NoAnswer} : ResolveProviderDecision(k, answer)

Next ==
    \/ Calls(ExplicitValues, ServerAnswers, OverrideTexts, CatalogFiles)
    \/ Resolutions(ServerAnswers)
    \/ RefreshFeatureFlagState
    \/ Tick

Spec == Init /\ [][Next]_vars

-----------------------------------------------------------------------------
(* scripts/check_feature_flags.py: the hygiene script.  A violation is the *)
(* record of the key it names and its kind; a calendar date is <<y, m, d>>. *)

ALLOWED_TYPES == {S_release, S_experiment, S_kill_switch}
ALLOWED_STATUS == {S_draft, S_enabled_dev, S_enabled_staging, S_enabled_prod,
                   S_cleanup_pending, S_removed}

ValidationError(key, kind) == [key |-> key, kind |-> kind]

IsLeapYear(y) == (y % 4 = 0 /\ y % 100 # 0) \/ y % 400 = 0

DaysInMonth(y, m) ==
    IF m = 2 THEN (IF IsLeapYear(y) THEN 29 ELSE 28)
    ELSE IF m \in {4, 6, 9, 11} THEN 30 ELSE 31

\* date.fromisoformat on a text of the shape YYYY-MM-DD; every other text is
\* ValueError, as is a day that the calendar does not have
FromIsoFormat(raw) ==
    LET shaped == /\ Len(raw) = 10
                  /\ raw[5] = "-" /\ raw[8] = "-"
                  /\ \A i \in {1, 2, 3, 4, 6, 7, 9, 10} : IsDigit(raw[i])
        y == DigitsVal(SubSeq(raw, 1, 4))
        m == DigitsVal(SubSeq(raw, 6, 7))
        d == DigitsVal(SubSeq(raw, 9, 10))
    IN  IF shaped /\ y >= 1 /\ m \in 1..12 /\ d >= 1 /\ d <= DaysInMonth(y, m)
        THEN [ok |-> TRUE, date |-> <<y, m, d>>]
        ELSE [ok |-> FALSE, date |-> <<0, 0, 0>>]

\* a < b on dates
DateBefore(a, b) ==
    \/ a[1] < b[1]
    \/ a[1] = b[1] /\ a[2] < b[2]
    \/ a[1] = b[1] /\ a[2] = b[2] /\ a[3] < b[3]

\* parse_iso_date: the date (ok tells whether there is one) and the violations
parse_iso_date(raw, key, field_name, errors) ==
    IF raw.t # "str"
    THEN [ok |-> FALSE, date |-> <<0, 0, 0>>,
          errors |-> Append(errors, ValidationError(key, field_name \o " must use YYYY-MM-DD"))]
    ELSE IF ~FromIsoFormat(raw.s).ok
    THEN [ok |-> FALSE, date |-> <<0, 0, 0>>,
          errors |-> Append(errors, ValidationError(key, field_name \o " is not a valid calendar date"))]
    ELSE [ok |-> TRUE, date |-> FromIsoFormat(raw.s).date, errors |-> errors]

\* get_flag_key: the key (empty for None) and the violations
get_flag_key(flag, errors) ==
    LET key == Strip(PyStr(GetOr(flag.key, StrV(S_empty))))
    IN  IF key = <<>>
        THEN [key |-> <<>>, errors |-> Append(errors, ValidationError(<<>>, "missing key"))]
        ELSE [key |-> key, errors |-> errors]

\* validate_key that does not report a key seen before
validate_key_forgets(key, prefix, seen_keys, errors) ==
    LET e1 == IF ~StartsWith(key, prefix \o S_dot)
              THEN Append(errors, ValidationError(key, "key must start with prefix"))
              ELSE errors
    IN  [seen_keys |-> seen_keys \cup {key}, errors |-> e1]

\* validate_key: the keys seen and the violations
validate_key(key, prefix, seen_keys, errors) ==
    LET e1 == IF ~StartsWith(key, prefix \o S_dot)
              THEN Append(errors, ValidationError(key, "key must start with prefix"))
              ELSE errors
    IN  IF key \in seen_keys
        THEN [seen_keys |-> seen_keys,
              errors |-> Append(e1, ValidationError(key, "duplicate key detected"))]
        ELSE [seen_keys |-> seen_keys \cup {key}, errors |-> e1]

\* validate_owner_type_status: the status and the violations
validate_owner_type_status(key, flag, errors) ==
    LET owner == Strip(PyStr(GetOr(flag.owner, StrV(S_empty))))
        raw_type == Strip(PyStr(GetOr(flag.type, StrV(S_empty))))
        status == Strip(PyStr(GetOr(flag.status, StrV(S_empty))))
        e1 == IF owner = <<>>
              THEN Append(errors, ValidationError(key, "missing required field owner"))
              ELSE errors
        e2 == IF raw_type \notin ALLOWED_TYPES
              THEN Append(e1, ValidationError(key, "invalid type"))
              ELSE e1
        e3 == IF status \notin ALLOWED_STATUS
              THEN Append(e2, ValidationError(key, "invalid status"))
              ELSE e2
    IN  [status |-> status, errors |-> e3]

\* validate_dates: the violations
validate_dates(key, flag, status, today, errors) ==
    LET created_at == parse_iso_date(GetOr(flag.createdAt, NoneV), key, "createdAt", errors)
        remove_by == parse_iso_date(GetOr(flag.removeBy, NoneV), key, "removeBy",
                                    created_at.errors)
        e1 == IF created_at.ok /\ remove_by.ok /\ DateBefore(remove_by.date, created_at.date)
              THEN Append(remove_by.errors,
                          ValidationError(key, "removeBy cannot be before createdAt"))
              ELSE remove_by.errors
    IN  IF remove_by.ok /\ status # S_removed /\ DateBefore(remove_by.date, today)
        THEN Append(e1, ValidationError(key, "flag is expired and not removed"))
        ELSE e1

\* validate_flag: the keys seen and the violations
validate_flag(flag, prefix, today, seen_keys, errors) ==
    LET k == get_flag_key(flag, errors)
        v == validate_key(k.key, prefix, seen_keys, k.errors)
        o == validate_owner_type_status(k.key, flag, v.errors)
    IN  IF ~flag.isdict
        THEN [seen_keys |-> seen_keys,
              errors |-> Append(errors, ValidationError(<<>>, "every item must be an object"))]
        ELSE IF k.key = <<>>
        THEN [seen_keys |-> seen_keys, errors |-> k.errors]
        ELSE [seen_keys |-> v.seen_keys,
              errors |-> validate_dates(k.key, flag, o.status, today, o.errors)]

RECURSIVE ValidateEach(_, _, _, _, _)
\* the loop of validate_flags
ValidateEach(flags, prefix, today, seen_keys, errors) ==
    IF flags = <<>> THEN errors
    ELSE LET r == validate_flag(Head(flags), prefix, today, seen_keys, errors)
         IN  ValidateEach(Tail(flags), prefix, today, r.seen_keys, r.errors)

\* validate_flags, today being date.today()
validate_flags(flags, prefix, today) == ValidateEach(flags, prefix, today, {}, <<>>)

\* load_flags: the list, or the exception raised
load_flags(file) ==
    IF ~file.exists THEN [exc |-> "FileNotFoundError", flags |-> <<>>]
    ELSE IF file.doc.j = "invalid" THEN [exc |-> "JSONDecodeError", flags |-> <<>>]
    ELSE IF file.doc.j # "object" THEN [exc |-> "AttributeError", flags |-> <<>>]
    ELSE IF ~IsListMember(file.doc) THEN [exc |-> "ValueError", flags |-> <<>>]
    ELSE [exc |-> "none", flags |-> file.doc.items]

\* main: the exit status, the violations printed to stderr, the exception
\* reported instead, and the count printed to stdout (-1: nothing printed)
main(file, today) ==
    LET loaded == load_flags(file)
        errors == validate_flags(loaded.flags, S_api, today)
    IN  IF loaded.exc # "none"
        THEN [exit |-> 1, errors |-> <<>>, exc |-> loaded.exc, count |-> 0 - 1]
        ELSE IF errors # <<>>
        THEN [exit |-> 1, errors |-> errors, exc |-> "none", count |-> 0 - 1]
        ELSE [exit |-> 0, errors |-> <<>>, exc |-> "none", count |-> Len(loaded.flags)]

-----------------------------------------------------------------------------
(* The hygiene script run once on a catalog file.                          *)

\* catalog entries: two valid ones, one past its removeBy date, one that is not
\* an object, one without a key and past its removeBy date, one with nothing
\* right, one whose removeBy precedes createdAt, one with an impossible day
HygieneFlags ==
    { Flag(StrV(K_a), StrV(S_draft), StrV(S_team), StrV(S_release),
           StrV(D_2024_01_10), StrV(D_2024_06_01)),
      Flag(StrV(K_b), StrV(S_removed), StrV(S_team), StrV(S_kill_switch),
           StrV(D_2024_01_10), StrV(D_2024_02_01)),
      Flag(StrV(K_a_padded), StrV(S_enabled_prod), StrV(S_team), StrV(S_experiment),
           StrV(D_2024_01_10), StrV(D_2024_02_01)),
      NotAnObjectFlag,
      Flag(AbsentV, StrV(S_draft), StrV(S_team), StrV(S_release),
           StrV(D_2024_01_10), StrV(D_2024_02_01)),
      Flag(StrV(K_web), StrV(S_Draft), StrV(S_blank), StrV(S_x), StrV(S_soon), NumV(1)),
      Flag(StrV(K_b), StrV(S_cleanup_pending), StrV(S_team), StrV(S_release),
           StrV(D_2024_06_01), StrV(D_2024_02_29)),
      Flag(StrV(K_a), StrV(S_enabled_dev), StrV(S_team), StrV(S_release),
           StrV(D_2023_02_29), StrV(D_2024_02_30)) }

HygieneFiles ==
    {NoFile, File(J_invalid), File(J_scalar), File(J_object_without_list),
     File(J_object_bad_list)}
      \cup {File(J_object(xs)) : xs \in UNION {[1..n -> HygieneFlags] : n \in 0..MaxFlags}}

\* date.today()
Todays == {<<2024, 1, 20>>, <<2024, 3, 1>>}

NotRun == [exit |-> 0 - 1, errors |-> <<>>, exc |-> "none", count |-> 0 - 1]

InitHygiene ==
    /\ hyg \in {[stage |-> "ready", file |-> f, today |-> d, out |-> NotRun] :
                  f \in HygieneFiles, d \in Todays}
    /\ env = EnvLocal
    /\ world = NoWorld
    /\ now = 0
    /\ unleash_cache_snapshot = EmptyDict
    /\ unleash_cache_expire_at_seconds = 0
    /\ catalog_cache = EmptyCache
    /\ overrides_cache = EmptyCache
    /\ last = NoOp("start")
    /\ hist = NoHistory
    /\ pc = <<>>
    /\ loc = <<>>
    /\ done = <<>>

\* python scripts/check_feature_flags.py
RunHygieneScript ==
    /\ hyg.stage = "ready"
    /\ hyg' = [hyg EXCEPT !.stage = "done", !.out = main(hyg.file, hyg.today)]
    /\ UNCHANGED <<env, world, now, unleash_cache_snapshot, unleash_cache_expire_at_seconds,
                   catalog_cache, overrides_cache, last, hist, pc, loc, done>>

NextHygiene == RunHygieneScript

SpecHygiene == InitHygiene /\ [][NextHygiene]_vars

-----------------------------------------------------------------------------
(* is_feature_enabled with every value of the second argument.             *)

AllExplicitValues ==
    { NoneV, BoolV(TRUE), BoolV(FALSE), StrV(S_1), StrV(S_true), StrV(S_yes), StrV(S_on),
      StrV(S_0), StrV(S_false), StrV(S_no), StrV(S_off), StrV(S_ON_padded), StrV(S_maybe),
      NumV(0) }

NextExplicit ==
    \/ Calls(AllExplicitValues, {Raises("URLError"), AnswerA}, {NoText, TextOff},
             {File(J_invalid), FileActive})
    \/ RefreshFeatureFlagState
    \/ Tick

SpecExplicit == Init /\ [][NextExplicit]_vars

-----------------------------------------------------------------------------
(* The module used from several request contexts at once.  The override    *)
(* variable, the catalog file and the server's answer are held fixed        *)
(* (world); a context runs is_feature_enabled(key) or                       *)
(* refresh_feature_flag_state() one statement at a time, and a statement    *)
(* that reads or writes a shared cache is one step.                        *)

RequestContexts == {"r1", "r2"}

FixedWorlds ==
    { [text |-> TextOff, file |-> FileClean, answer |-> AnswerA],
      [text |-> NoText, file |-> FileActive, answer |-> Raises("URLError")] }

NoLocals == [key |-> <<>>, now_seconds |-> 0, parsed |-> EmptyDict, snapshot |-> EmptyDict,
             overrides |-> EmptyDict]
NothingDone == [op |-> "none", key |-> <<>>, result |-> Ret(FALSE)]

InitConcurrent ==
    /\ env = EnvUnleash
    /\ world \in FixedWorlds
    /\ now = 0
    /\ unleash_cache_snapshot = EmptyDict
    /\ unleash_cache_expire_at_seconds = 0
    /\ catalog_cache = EmptyCache
    /\ overrides_cache = EmptyCache
    /\ last = NoOp("start")
    /\ hist = NoHistory
    /\ pc = [c \in RequestContexts |-> "idle"]
    /\ loc = [c \in RequestContexts |-> NoLocals]
    /\ done = [c \in RequestContexts |-> NothingDone]
    /\ hyg = <<>>

Goto(c, label) == pc' = [pc EXCEPT ![c] = label]
Finish(c, outcome) ==
    /\ pc' = [pc EXCEPT ![c] = "idle"]
    /\ done' = [done EXCEPT ![c] = [op |-> "is_feature_enabled", key |-> loc[c].key,
                                    result |-> outcome]]
Fixed == UNCHANGED <<env, world, now, last, hist, hyg>>
CachesUnchanged ==
    UNCHANGED <<unleash_cache_snapshot, unleash_cache_expire_at_seconds, catalog_cache,
                overrides_cache>>

\* is_feature_enabled(flag_key) is entered; _fetch_unleash_snapshot tests the
\* provider mode and the URL
CallBegins(c, flag_key) ==
    /\ pc[c] = "idle"
    /\ loc' = [loc EXCEPT ![c] = [NoLocals EXCEPT !.key = flag_key]]
    /\ IF ProviderActive(env) THEN Goto(c, "read_time") ELSE Goto(c, "decide")
    /\ UNCHANGED done /\ CachesUnchanged /\ Fixed

\* now_seconds = time.monotonic()
ReadTime(c) ==
    /\ pc[c] = "read_time"
    /\ loc' = [loc EXCEPT ![c].now_seconds = now]
    /\ Goto(c, "check_expiry")
    /\ UNCHANGED done /\ CachesUnchanged /\ Fixed

\* if now_seconds < _unleash_cache_expire_at_seconds
CheckExpiry(c) ==
    /\ pc[c] = "check_expiry"
    /\ IF loc[c].now_seconds < unleash_cache_expire_at_seconds
       THEN Goto(c, "return_cached") ELSE Goto(c, "request")
    /\ UNCHANGED <<loc, done>> /\ CachesUnchanged /\ Fixed

\* return _unleash_cache_snapshot
ReturnCached(c) ==
    /\ pc[c] = "return_cached"
    /\ loc' = [loc EXCEPT ![c].snapshot = unleash_cache_snapshot]
    /\ Goto(c, "decide")
    /\ UNCHANGED done /\ CachesUnchanged /\ Fixed

\* the request, the decoding and _parse_unleash_payload
Request(c) ==
    /\ pc[c] = "request"
    /\ \E r \in {UrlopenAndDecode(world.answer)} :
         IF r.early \/ r.exc \in CaughtByFetch
         THEN /\ loc' = [loc EXCEPT ![c].snapshot = EmptyDict]
              /\ Goto(c, "decide")
         ELSE /\ loc' = [loc EXCEPT ![c].parsed = _parse_unleash_payload(r.payload)]
              /\ Goto(c, "store_snapshot")
    /\ UNCHANGED done /\ CachesUnchanged /\ Fixed

\* _unleash_cache_snapshot = parsed_flags
StoreSnapshot(c) ==
    /\ pc[c] = "store_snapshot"
    /\ unleash_cache_snapshot' = loc[c].parsed
    /\ Goto(c, "store_expiry")
    /\ UNCHANGED <<loc, done, unleash_cache_expire_at_seconds, catalog_cache, overrides_cache>>
    /\ Fixed

\* _unleash_cache_expire_at_seconds = now_seconds + ttl; return parsed_flags
StoreExpiry(c) ==
    /\ pc[c] = "store_expiry"
    /\ unleash_cache_expire_at_seconds' =
         loc[c].now_seconds + _get_unleash_cache_ttl_seconds(env)
    /\ loc' = [loc EXCEPT ![c].snapshot = loc[c].parsed]
    /\ Goto(c, "decide")
    /\ UNCHANGED <<done, unleash_cache_snapshot, catalog_cache, overrides_cache>>
    /\ Fixed

\* resolve_provider_decision on the snapshot returned, and the test of its result
Decide(c) ==
    /\ pc[c] = "decide"
    /\ \E d \in {resolve_provider_decision(loc[c].snapshot, loc[c].key)} :
         IF d.t # "none"
         THEN Finish(c, Ret(d.b))
         ELSE Goto(c, "overrides_lookup") /\ UNCHANGED done
    /\ UNCHANGED loc /\ CachesUnchanged /\ Fixed

\* _load_overrides(): the lru_cache is asked
OverridesLookup(c) ==
    /\ pc[c] = "overrides_lookup"
    /\ IF overrides_cache.full
       THEN /\ loc' = [loc EXCEPT ![c].overrides = overrides_cache.value]
            /\ Goto(c, "override_decide")
       ELSE /\ Goto(c, "overrides_load")
            /\ UNCHANGED loc
    /\ UNCHANGED done /\ CachesUnchanged /\ Fixed

\* _load_overrides(): the body runs and the lru_cache stores its result
OverridesLoad(c) ==
    /\ pc[c] = "overrides_load"
    /\ overrides_cache' = Cached(_load_overrides(world.text))
    /\ loc' = [loc EXCEPT ![c].overrides = _load_overrides(world.text)]
    /\ Goto(c, "override_decide")
    /\ UNCHANGED <<done, unleash_cache_snapshot, unleash_cache_expire_at_seconds, catalog_cache>>
    /\ Fixed

\* if flag_key in overrides: return overrides[flag_key]
OverrideDecide(c) ==
    /\ pc[c] = "override_decide"
    /\ \E d \in {OverrideDecision(loc[c].overrides, loc[c].key)} :
         IF d.t # "none"
         THEN Finish(c, Ret(d.b))
         ELSE Goto(c, "catalog_lookup") /\ UNCHANGED done
    /\ UNCHANGED loc /\ CachesUnchanged /\ Fixed

\* _load_catalog(): the lru_cache is asked; on a hit the status decides
CatalogLookup(c) ==
    /\ pc[c] = "catalog_lookup"
    /\ IF catalog_cache.full
       THEN Finish(c, Ret(CatalogDecision(catalog_cache.value, loc[c].key)))
       ELSE Goto(c, "catalog_load") /\ UNCHANGED done
    /\ UNCHANGED loc /\ CachesUnchanged /\ Fixed

\* _load_catalog(): the body runs, the lru_cache stores its result unless the
\* body raised, and the status decides
CatalogLoad(c) ==
    /\ pc[c] = "catalog_load"
    /\ \E loaded \in {_load_catalog(world.file)} :
         IF loaded.exc # "none"
         THEN Finish(c, loaded) /\ UNCHANGED catalog_cache
         ELSE /\ catalog_cache' = Cached(loaded.val)
              /\ Finish(c, Ret(CatalogDecision(loaded.val, loc[c].key)))
    /\ UNCHANGED <<loc, unleash_cache_snapshot, unleash_cache_expire_at_seconds, overrides_cache>>
    /\ Fixed

\* refresh_feature_flag_state() is entered: _load_catalog.cache_clear()
RefreshBegins(c) ==
    /\ pc[c] = "idle"
    /\ catalog_cache' = EmptyCache
    /\ Goto(c, "refresh_overrides")
    /\ UNCHANGED <<loc, done, unleash_cache_snapshot, unleash_cache_expire_at_seconds,
                   overrides_cache>>
    /\ Fixed

\* _load_overrides.cache_clear()
RefreshOverrides(c) ==
    /\ pc[c] = "refresh_overrides"
    /\ overrides_cache' = EmptyCache
    /\ Goto(c, "refresh_snapshot")
    /\ UNCHANGED <<loc, done, unleash_cache_snapshot, unleash_cache_expire_at_seconds,
                   catalog_cache>>
    /\ Fixed

\* _unleash_cache_snapshot = {}
RefreshSnapshot(c) ==
    /\ pc[c] = "refresh_snapshot"
    /\ unleash_cache_snapshot' = EmptyDict
    /\ Goto(c, "refresh_expiry")
    /\ UNCHANGED <<loc, done, unleash_cache_expire_at_seconds, catalog_cache, overrides_cache>>
    /\ Fixed

\* _unleash_cache_expire_at_seconds = 0.0
RefreshExpiry(c) ==
    /\ pc[c] = "refresh_expiry"
    /\ unleash_cache_expire_at_seconds' = 0
    /\ pc' = [pc EXCEPT ![c] = "idle"]
    /\ done' = [done EXCEPT ![c] = [NothingDone EXCEPT !.op = "refresh_feature_flag_state"]]
    /\ UNCHANGED <<loc, unleash_cache_snapshot, catalog_cache, overrides_cache>>
    /\ Fixed

\* time.monotonic() advances
TickConcurrent ==
    /\ now < MaxTime
    /\ now' = now + 1
    /\ UNCHANGED <<env, world, last, hist, hyg, pc, loc, done>>
    /\ CachesUnchanged

NextConcurrent ==
    \/ \E c \in RequestContexts, k \in FlagKeys : CallBegins(c, k)
    \/ \E c \in RequestContexts : ReadTime(c)
    \/ \E c \in RequestContexts : CheckExpiry(c)
    \/ \E c \in RequestContexts : ReturnCached(c)
    \/ \E c \in RequestContexts : Request(c)
    \/ \E c \in RequestContexts : StoreSnapshot(c)
    \/ \E c \in RequestContexts : StoreExpiry(c)
    \/ \E c \in RequestContexts : Decide(c)
    \/ \E c \in RequestContexts : OverridesLookup(c)
    \/ \E c \in RequestContexts : OverridesLoad(c)
    \/ \E c \in RequestContexts : OverrideDecide(c)
    \/ \E c \in RequestContexts : CatalogLookup(c)
    \/ \E c \in RequestContexts : CatalogLoad(c)
    \/ \E c \in RequestContexts : RefreshBegins(c)
    \/ \E c \in RequestContexts : RefreshOverrides(c)
    \/ \E c \in RequestContexts : RefreshSnapshot(c)
    \/ \E c \in RequestContexts : RefreshExpiry(c)
    \/ TickConcurrent

SpecConcurrent == InitConcurrent /\ [][NextConcurrent]_vars

-----------------------------------------------------------------------------
(* Properties.                                                             *)

IsCall == last.op = "is_feature_enabled"
ConsultsProvider ==
    \/ last.op = "resolve_provider_decision"
    \/ IsCall /\ last.layer # "explicit"

TrueWords == {S_1, S_true, S_yes, S_on}
FalseWords == {S_0, S_false, S_no, S_off}

\* C1: a call given a boolean, or one of the words 1/true/yes/on or
\* 0/false/no/off, returns that value, whatever the caches hold, and reads
\* no source.
C1_ExplicitValueWins ==
    IsCall =>
      /\ last.explicit.t = "bool" => last.result = Ret(last.explicit.b)
      /\ (last.explicit.t = "str" /\ last.explicit.s \in TrueWords) => last.result = Ret(TRUE)
      /\ (last.explicit.t = "str" /\ last.explicit.s \in FalseWords) => last.result = Ret(FALSE)
      /\ (last.explicit.t = "bool"
            \/ (last.explicit.t = "str" /\ last.explicit.s \in TrueWords \cup FalseWords))
           => ~last.net /\ ~last.ov_read /\ ~last.cat_read

\* the word "off" given for a key that the cached override map enables
C1_Witness ==
    /\ IsCall
    /\ last.explicit = StrV(S_off)
    /\ last.result = Ret(FALSE)
    /\ overrides_cache.full
    /\ last.key \in DOMAIN overrides_cache.value
    /\ overrides_cache.value[last.key]

\* C2: without an explicit value and with the provider active, a call whose
\* snapshot contains the key returns the snapshot's value for the key.
C2_ProviderSnapshotWins ==
    (IsCall /\ last.explicit = NoneV /\ ProviderActive(env) /\ last.key \in DOMAIN last.got)
      => last.result = Ret(last.got[last.key])

\* the snapshot decides against both the cached override map and the cached catalog
C2_Witness ==
    /\ IsCall
    /\ last.explicit = NoneV
    /\ last.key \in DOMAIN last.got
    /\ overrides_cache.full
    /\ last.key \in DOMAIN overrides_cache.value
    /\ overrides_cache.value[last.key] # last.got[last.key]
    /\ catalog_cache.full
    /\ CatalogDecision(catalog_cache.value, last.key) # last.got[last.key]

\* C3: without an explicit value, when the snapshot obtained (empty if the
\* provider is inactive) lacks the key, a call returns the override map's value
\* for every key of the override map.
C3_OverrideWins ==
    (IsCall /\ last.explicit = NoneV /\ last.key \notin DOMAIN last.got
       /\ overrides_cache.full /\ last.key \in DOMAIN overrides_cache.value)
      => last.result = Ret(overrides_cache.value[last.key])

\* an override enables a key that the loaded catalog does not list
C3_Witness ==
    /\ IsCall
    /\ last.layer = "override"
    /\ last.result = Ret(TRUE)
    /\ catalog_cache.full
    /\ last.key \notin DOMAIN catalog_cache.value

\* C4: is_feature_enabled never raises: every call returns a boolean.
C4_NeverRaises == IsCall => last.result.exc = "none"

\* C5: a call whose request fails with a network error returns what the same
\* call returns with the provider mode unset.
C5_FailedFetchLikeInactive ==
    (IsCall /\ last.net /\ last.fetch \in {"URLError", "TimeoutError"})
      => last.result = last.if_inactive

\* the request fails while an expired snapshot that contains the key is stored
C5_Witness ==
    /\ IsCall
    /\ last.net
    /\ last.fetch = "URLError"
    /\ last.key \in DOMAIN unleash_cache_snapshot
    /\ last.result.exc = "none"
    /\ last.result.val # unleash_cache_snapshot[last.key]

\* C6: refresh_feature_flag_state empties the snapshot, the expiry, the
\* override cache and the catalog cache; the next provider resolution of an
\* active provider sends a request, and the next looks at the overrides and at
\* the catalog read the variable and the file.
C6_ResetForcesReload ==
    /\ last.op = "refresh_feature_flag_state"
         => /\ unleash_cache_snapshot = EmptyDict
            /\ unleash_cache_expire_at_seconds = 0
            /\ ~overrides_cache.full
            /\ ~catalog_cache.full
    /\ (ConsultsProvider /\ ProviderActive(env) /\ last.pre.fetch = "reset") => last.net
    /\ (IsCall /\ last.pre.ov_fresh /\ last.layer \in {"override", "catalog"}) => last.ov_read
    /\ (IsCall /\ last.pre.cat_fresh /\ last.layer = "catalog") => last.cat_read

\* the first call after a reset that came before the stored expiry: it sends
\* a request and reads the variable and the file
C6_Witness ==
    /\ IsCall
    /\ last.pre.fetch = "reset"
    /\ now < last.pre.old_exp
    /\ last.net
    /\ last.ov_read
    /\ last.cat_read

\* C7: after a successful fetch at time t with TTL d the cache holds that
\* fetch's snapshot and the expiry t + d; a resolution before t + d sends no
\* request and answers from that snapshot; a failed fetch stores nothing.
C7_FreshSnapshotIsReused ==
    /\ hist.fetch = "stored"
         => /\ unleash_cache_expire_at_seconds = hist.at + hist.ttl
            /\ unleash_cache_snapshot = hist.snap
    /\ hist.fetch # "stored"
         => /\ unleash_cache_expire_at_seconds = 0
            /\ unleash_cache_snapshot = EmptyDict
    /\ (ConsultsProvider /\ ProviderActive(env) /\ last.pre.fetch = "stored"
          /\ now < last.pre.at + last.pre.ttl)
         => /\ ~last.net
            /\ last.got = last.pre.snap
    /\ (ConsultsProvider /\ last.net /\ last.fetch # "ok")
         => /\ hist.fetch = last.pre.fetch
            /\ hist.at = last.pre.at
            /\ hist.snap = last.pre.snap

\* a resolution later than the fetch and before its expiry, answered from the store
C7_Witness ==
    /\ ConsultsProvider
    /\ last.pre.fetch = "stored"
    /\ last.pre.at < now
    /\ now < last.pre.at + last.pre.ttl
    /\ ~last.net
    /\ last.key \in DOMAIN last.got

-----------------------------------------------------------------------------
(* The hygiene script.                                                     *)

HygieneDone == hyg.stage = "done"
Listed == load_flags(hyg.file).flags
Reported == hyg.out.errors
KeyOf(flag) == Strip(PyStr(GetOr(flag.key, StrV(S_empty))))
HasKey(i) == Listed[i].isdict /\ KeyOf(Listed[i]) # <<>>

\* the entry is an object whose removeBy is a date before today and whose
\* status is not "removed"
PastRemoveBy(i) ==
    /\ Listed[i].isdict
    /\ Listed[i].removeBy.t = "str"
    /\ FromIsoFormat(Listed[i].removeBy.s).ok
    /\ DateBefore(FromIsoFormat(Listed[i].removeBy.s).date, hyg.today)
    /\ Strip(PyStr(GetOr(Listed[i].status, StrV(S_empty)))) # S_removed

RepeatsEarlierKey(i) ==
    HasKey(i) /\ \E j \in 1..(i - 1) : HasKey(j) /\ KeyOf(Listed[j]) = KeyOf(Listed[i])

Violations(kind) == {j \in 1..Len(Reported) : Reported[j].kind = kind}
ViolationsOf(key, kind) == {j \in Violations(kind) : Reported[j].key = key}
KeysListed == {KeyOf(Listed[i]) : i \in {j \in 1..Len(Listed) : HasKey(j)}}

\* the exit status: 1 if the catalog cannot be loaded or a violation exists,
\* else 0 with the number of flags printed
ExitStatusTellsViolations ==
    /\ hyg.out.exit = (IF hyg.out.exc # "none" \/ Reported # <<>> THEN 1 ELSE 0)
    /\ hyg.out.exit = 0
         => /\ hyg.out.count = Len(Listed)
            /\ \A i \in 1..Len(Listed) : HasKey(i) /\ ~PastRemoveBy(i) /\ ~RepeatsEarlierKey(i)
    /\ (\E i \in 1..Len(Listed) : ~Listed[i].isdict \/ PastRemoveBy(i) \/ RepeatsEarlierKey(i))
         => hyg.out.exit = 1

DuplicatesReported ==
    \A k \in KeysListed :
       Cardinality(ViolationsOf(k, "duplicate key detected"))
         = Cardinality({i \in 1..Len(Listed) : RepeatsEarlierKey(i) /\ KeyOf(Listed[i]) = k})

\* C8, as stated: every entry past its removeBy date and not removed is
\* reported as expired.
C8_EveryExpiredEntryReported ==
    HygieneDone =>
      /\ ExitStatusTellsViolations
      /\ DuplicatesReported
      /\ Cardinality(Violations("flag is expired and not removed"))
           = Cardinality({i \in 1..Len(Listed) : PastRemoveBy(i)})

\* C8, amended: every entry with a non-empty key that is past its removeBy date
\* and not removed is reported as expired, under its key.
C8_ExpiredEntryWithKeyReported ==
    HygieneDone =>
      /\ ExitStatusTellsViolations
      /\ DuplicatesReported
      /\ \A k \in KeysListed :
           Cardinality(ViolationsOf(k, "flag is expired and not removed"))
             = Cardinality({i \in 1..Len(Listed) :
                              HasKey(i) /\ PastRemoveBy(i) /\ KeyOf(Listed[i]) = k})
      /\ \A j \in Violations("flag is expired and not removed") : Reported[j].key \in KeysListed

\* a catalog with an expired entry and a repeated key: both reported, exit status 1
C8_Witness ==
    /\ HygieneDone
    /\ hyg.out.exit = 1
    /\ Violations("flag is expired and not removed") # {}
    /\ Violations("duplicate key detected") # {}

-----------------------------------------------------------------------------
(* Concurrent use.                                                         *)

\* what a call returns when nothing runs beside it
SequentialResult(flag_key) ==
    is_feature_enabled(env, world.text, world.file, world.answer, now, EmptyDict, 0,
                       EmptyCache, EmptyCache, flag_key, NoneV).result

FetchSucceeds ==
    LET r == UrlopenAndDecode(world.answer) IN ~r.early /\ r.exc = "none"

\* C9: under every interleaving each call returns what a sequential call
\* returns, and an unexpired expiry is stored only with the snapshot of a
\* successful fetch.
C9_ConcurrentUseIsSafe ==
    /\ \A c \in RequestContexts :
         done[c].op = "is_feature_enabled" => done[c].result = SequentialResult(done[c].key)
    /\ now < unleash_cache_expire_at_seconds
         => /\ FetchSucceeds
            /\ unleash_cache_snapshot = _parse_unleash_payload(world.answer.doc)

-----------------------------------------------------------------------------
(* The statuses of the runtime and of the validator.                       *)

\* the status check of validate_owner_type_status accepts the entry
StatusAccepted(flag) ==
    LET errors == validate_owner_type_status(<<>>, flag, <<>>).errors
    IN  \A j \in 1..Len(errors) : errors[j].kind # "invalid status"

\* C10: no status is both enabled for the runtime and accepted by the
\* validator: a call decided by a catalog whose entries all pass the
\* validator's status check returns false, and a call that the catalog
\* decides as true found an entry that the validator rejects.
C10_AcceptedCatalogEnablesNothing ==
    /\ _ENABLED_STATUSES \cap ALLOWED_STATUS = {}
    /\ (IsCall /\ last.layer = "catalog" /\ last.result.exc = "none")
         => /\ catalog_cache.full
            /\ (\A k \in DOMAIN catalog_cache.value : StatusAccepted(catalog_cache.value[k]))
                 => last.result = Ret(FALSE)
            /\ last.result = Ret(TRUE)
                 => /\ last.key \in DOMAIN catalog_cache.value
                    /\ ~StatusAccepted(catalog_cache.value[last.key])

\* the catalog decides a key that it lists, all its entries passing the status check
C10_Witness ==
    /\ IsCall
    /\ last.layer = "catalog"
    /\ last.result = Ret(FALSE)
    /\ catalog_cache.full
    /\ last.key \in DOMAIN catalog_cache.value
    /\ \A k \in DOMAIN catalog_cache.value : StatusAccepted(catalog_cache.value[k])

====
